---------------------------- MODULE Spec2Model ----------------------------
(***************************************************************************)
(* A state-machine model of src/create_wallpaper.py (spanpaper): main()    *)
(* reads the static monitor / gap configuration, derives the physical and  *)
(* pixel layout, opens the source image, crops it to the layout aspect,    *)
(* pastes one resampled slice per monitor into a red canvas and saves it.  *)
(*                                                                         *)
(* Numbers.  The script computes with Python ints and floats.  The model   *)
(* computes every float expression of the script in IEEE 754 binary64, one *)
(* correctly rounded operation at a time and in the script's order of      *)
(* evaluation: +, -, *, /, math.sqrt, the comparisons, round() (half to    *)
(* even) and sum() (CPython 3.11: a plain left-to-right sum starting from  *)
(* the int 0).  Zeros are signed.  Overflow, subnormals, infinities and    *)
(* NaN are not modelled: the quantities of the script are inches, pixels   *)
(* and ratios of them.  Ints are TLC's integers (below 2^31).              *)
(*                                                                         *)
(* Pillow.  The image library is modelled by its contract: Image.open      *)
(* raises on an unreadable file; Image.crop raises ValueError when         *)
(* right < left or lower < upper and otherwise returns an image of size    *)
(* (right-left, lower-upper); Image.new raises ValueError on a negative    *)
(* size; Image.resize returns a copy when the size is unchanged and        *)
(* otherwise raises ValueError when a target dimension is < 1; paste       *)
(* writes the pixels of the pasted image that fall on the canvas.  An      *)
(* uncaught exception ends the interpreter with exit status 1, as          *)
(* sys.exit(1) does.                                                       *)
(***************************************************************************)
EXTENDS Integers, Sequences, FiniteSets, TLC

(***************************************************************************)
(* Bounds of the model.                                                    *)
(***************************************************************************)
MaxMonitors == 2

MaxGaps == 2

(***************************************************************************)
(* Natural numbers of any size: TLC's integers are 32 bits wide, a float's *)
(* 53-bit mantissa and the 106-bit products of two mantissas are kept as   *)
(* little-endian sequences of 14-bit limbs, <<>> being zero.               *)
(***************************************************************************)
LimbBits == 14

Base == 2^LimbBits

Abs(x) == IF x < 0 THEN -x ELSE x

Min(a, b) == IF a < b THEN a ELSE b

Max(a, b) == IF a < b THEN b ELSE a

Least(S) == CHOOSE x \in S : \A y \in S : x <= y

\* the number of bits of n, for 0 <= n < 2^31
BitLen(n) == Cardinality({k \in 0..30 : 2^k <= n})

\* the number of low zero bits of n, for 0 < n < 2^31
TrailingZeros(n) == Cardinality({k \in 1..30 : n % 2^k = 0})

Limb(a, k) == IF 1 <= k /\ k <= Len(a) THEN a[k] ELSE 0

\* the tuple of a function on 1..n: TLC computes an element of a function
\* constructor at each use of it, and the elements of a tuple once
Tuple(f) == f \o <<>>

\* a without its zero top limbs
RECURSIVE BNorm(_)
BNorm(a) ==
    IF a = <<>> THEN a
    ELSE IF a[Len(a)] = 0 THEN BNorm(SubSeq(a, 1, Len(a) - 1)) ELSE a

RECURSIVE BFromNat(_)
BFromNat(n) == IF n = 0 THEN <<>> ELSE <<n % Base>> \o BFromNat(n \div Base)

RECURSIVE BToNat(_)
BToNat(a) == IF a = <<>> THEN 0 ELSE a[1] + Base * BToNat(Tail(a))

RECURSIVE BCmpFrom(_, _, _)
BCmpFrom(a, b, k) ==
    IF k = 0 THEN 0
    ELSE IF a[k] < b[k] THEN -1
    ELSE IF a[k] > b[k] THEN 1
    ELSE BCmpFrom(a, b, k - 1)

\* -1, 0 or 1 as a < b, a = b or a > b
BCmp(a, b) ==
    IF Len(a) < Len(b) THEN -1
    ELSE IF Len(a) > Len(b) THEN 1
    ELSE BCmpFrom(a, b, Len(a))

RECURSIVE BAddFrom(_, _, _, _)
BAddFrom(a, b, k, carry) ==
    IF k > Len(a) /\ k > Len(b)
    THEN IF carry = 0 THEN <<>> ELSE <<carry>>
    ELSE LET s == Limb(a, k) + Limb(b, k) + carry
         IN  <<s % Base>> \o BAddFrom(a, b, k + 1, s \div Base)

BAdd(a, b) == BAddFrom(a, b, 1, 0)

RECURSIVE BSubFrom(_, _, _, _)
BSubFrom(a, b, k, borrow) ==
    IF k > Len(a) THEN <<>>
    ELSE LET d == a[k] - Limb(b, k) - borrow
         IN  IF d < 0 THEN <<d + Base>> \o BSubFrom(a, b, k + 1, 1)
             ELSE <<d>> \o BSubFrom(a, b, k + 1, 0)

\* a - b for a >= b
BSub(a, b) == BNorm(BSubFrom(a, b, 1, 0))

RECURSIVE BMulSmallFrom(_, _, _, _)
BMulSmallFrom(a, n, k, carry) ==
    IF k > Len(a)
    THEN IF carry = 0 THEN <<>> ELSE <<carry>>
    ELSE LET p == a[k] * n + carry
         IN  <<p % Base>> \o BMulSmallFrom(a, n, k + 1, p \div Base)

\* a * n for 0 <= n < Base
BMulSmall(a, n) == IF n = 0 THEN <<>> ELSE BMulSmallFrom(a, n, 1, 0)

\* a * Base^n
ShiftLimbs(a, n) == IF a = <<>> THEN a ELSE [k \in 1..n |-> 0] \o a

RECURSIVE BMul(_, _)
BMul(a, b) ==
    IF b = <<>> THEN <<>>
    ELSE BAdd(BMulSmall(a, b[1]), ShiftLimbs(BMul(a, Tail(b)), 1))

\* a * 2^n
BShl(a, n) ==
    LET q == n \div LimbBits
        r == n % LimbBits
    IN  BNorm(Tuple([k \in 1..(Len(a) + q + 1) |->
                        (Limb(a, k - q) % 2^(LimbBits - r)) * 2^r
                        + Limb(a, k - q - 1) \div 2^(LimbBits - r)]))

\* a \div 2^n
BShr(a, n) ==
    LET q == n \div LimbBits
        r == n % LimbBits
    IN  BNorm(Tuple([k \in 1..Max(0, Len(a) - q) |->
                        Limb(a, k + q) \div 2^r
                        + (Limb(a, k + q + 1) % 2^r) * 2^(LimbBits - r)]))

\* bit n (from 0) of a
BBit(a, n) == (Limb(a, n \div LimbBits + 1) \div 2^(n % LimbBits)) % 2

\* a % 2^n = 0
BLowBitsZero(a, n) ==
    /\ \A k \in 1..Min(n \div LimbBits, Len(a)) : a[k] = 0
    /\ Limb(a, n \div LimbBits + 1) % 2^(n % LimbBits) = 0

BBitLen(a) ==
    IF a = <<>> THEN 0 ELSE LimbBits * (Len(a) - 1) + BitLen(a[Len(a)])

RECURSIVE BTrailingZeros(_)
BTrailingZeros(a) ==
    IF a[1] = 0 THEN LimbBits + BTrailingZeros(Tail(a)) ELSE TrailingZeros(a[1])

\* cur \div d, given an estimate that is at most 2 too large
BQuotientLimb(cur, d, estimate) ==
    IF BCmp(BMulSmall(d, estimate), cur) <= 0 THEN estimate
    ELSE IF BCmp(BMulSmall(d, estimate - 1), cur) <= 0 THEN estimate - 1
    ELSE estimate - 2

\* long division of limbs k.. of a by d: << the quotient's limbs, the top
\* one first, the remainder >>.  The top bit of d's top limb is set, so
\* that the estimate of a quotient limb is at most 2 too large.
\* one more limb q of a quotient whose upper limbs are quotient: << the
\* quotient, the remainder of cur >>
BDivSubtract(quotient, cur, d, q) ==
    <<quotient \o <<q>>, BSub(cur, BMulSmall(d, q))>>

\* one step of the long division: cur is the remainder so far with the next
\* limb of the dividend below it
BDivLimb(quotient, cur, d) ==
    LET n == Len(d)
    IN  BDivSubtract(quotient, cur, d,
            BQuotientLimb(cur, d,
                Min(Base - 1,
                    (Limb(cur, n + 1) * Base + Limb(cur, n)) \div d[n])))

BDivStep(limb, hi, d) == BDivLimb(hi[1], BNorm(<<limb>> \o hi[2]), d)

RECURSIVE BDivFrom(_, _, _)
BDivFrom(a, d, k) ==
    IF k > Len(a) - Len(d) + 1 THEN <<<<>>, BNorm(SubSeq(a, k, Len(a)))>>
    ELSE BDivStep(a[k], BDivFrom(a, d, k + 1), d)

Reverse(s) == Tuple([k \in 1..Len(s) |-> s[Len(s) + 1 - k]])

\* the result of BDivFrom on a and d both times 2^sh, as that of a by d
BDivResult(res, sh) == <<BNorm(Reverse(res[1])), BShr(res[2], sh)>>

\* <<a \div d, a % d>> for d > 0
BDivMod(a, d) ==
    LET sh == LimbBits - BitLen(d[Len(d)])
    IN  BDivResult(BDivFrom(BShl(a, sh), BShl(d, sh), 1), sh)

RECURSIVE BSqrtFrom(_, _)
BSqrtNext(a, x, y) == IF BCmp(y, x) < 0 THEN BSqrtFrom(a, y) ELSE x

BSqrtFrom(a, x) == BSqrtNext(a, x, BShr(BAdd(x, BDivMod(a, x)[1]), 1))

\* the integer square root of a, by Newton's iteration from above
BSqrt(a) ==
    IF a = <<>> THEN <<>> ELSE BSqrtFrom(a, BShl(<<1>>, (BBitLen(a) + 1) \div 2))

(***************************************************************************)
(* Python floats (IEEE 754 binary64, round to nearest, ties to even).  A   *)
(* float is (-1)^s * m * 2^e with m odd and below 2^53, or m = 0.  Every   *)
(* operation computes the exact result and rounds it to 53 bits.           *)
(***************************************************************************)
Precision == 53

Float(s, m, e) == [s |-> s, m |-> m, e |-> e]

\* the float of the exact value (-1)^s * M * 2^E, M of at most 53 bits
Canonical(s, M, E) ==
    IF M = <<>> THEN Float(s, <<>>, 0)
    ELSE LET tz == BTrailingZeros(M) IN Float(s, BShr(M, tz), E + tz)

\* q or q + 1: the nearest to q + t, ties to even, where t = 1/2 if half
\* and not above, 1/2 < t < 1 if half and above, and t < 1/2 otherwise
RoundMantissa(q, half, above) ==
    IF half /\ (above \/ BBit(q, 0) = 1) THEN BAdd(q, <<1>>) ELSE q

\* the float nearest to (-1)^s * (M + t) * 2^E, where 0 < t < 1 if sticky
\* and t = 0 otherwise
RoundToFloat(s, M, E, sticky) ==
    LET k == BBitLen(M) - Precision
    IN  Canonical(s,
            IF k <= 0 THEN M
            ELSE RoundMantissa(BShr(M, k), BBit(M, k - 1) = 1,
                               sticky \/ ~BLowBitsZero(M, k - 1)),
            E + Max(0, k))

\* float(n) for an int n
FromInt(n) == Canonical(IF n < 0 THEN 1 ELSE 0, BFromNat(Abs(n)), 0)

FIsZero(a) == a.m = <<>>

FNeg(a) == Float(1 - a.s, a.m, a.e)

\* a with the sign s
WithSign(s, a) == Float(s, a.m, a.e)

\* -1, 0, 1 as |a| < |b|, |a| = |b|, |a| > |b|
FCmpAbs(a, b) ==
    IF FIsZero(a) \/ FIsZero(b)
    THEN IF ~FIsZero(b) THEN -1 ELSE IF ~FIsZero(a) THEN 1 ELSE 0
    ELSE LET ta == a.e + BBitLen(a.m)
             tb == b.e + BBitLen(b.m)
             lo == Min(a.e, b.e)
         IN  IF ta < tb THEN -1
             ELSE IF ta > tb THEN 1
             ELSE BCmp(BShl(a.m, a.e - lo), BShl(b.m, b.e - lo))

\* a < b
FLt(a, b) ==
    IF FIsZero(a) /\ FIsZero(b) THEN FALSE
    ELSE IF a.s # b.s THEN a.s = 1
    ELSE FCmpAbs(a, b) = (IF a.s = 0 THEN -1 ELSE 1)

\* a == b
FEq(a, b) == (FIsZero(a) /\ FIsZero(b)) \/ a = b

\* a <= b
FLe(a, b) == ~FLt(b, a)

\* (-1)^sa * A * 2^lo + (-1)^sb * B * 2^lo for A, B > 0
FAddAligned(sa, A, sb, B, lo) ==
    IF sa # sb /\ BCmp(A, B) = 0 THEN Float(0, <<>>, 0)
    ELSE RoundToFloat(IF sa = sb \/ BCmp(A, B) > 0 THEN sa ELSE sb,
                      IF sa = sb THEN BAdd(A, B)
                      ELSE IF BCmp(A, B) > 0 THEN BSub(A, B) ELSE BSub(B, A),
                      lo, FALSE)

\* a + b
FAdd(a, b) ==
    IF FIsZero(a) /\ FIsZero(b) THEN Float(IF a.s = 1 /\ b.s = 1 THEN 1 ELSE 0, <<>>, 0)
    ELSE IF FIsZero(a) THEN b
    ELSE IF FIsZero(b) THEN a
    ELSE LET lo == Min(a.e, b.e)
         IN  FAddAligned(a.s, BShl(a.m, a.e - lo), b.s, BShl(b.m, b.e - lo), lo)

\* a - b
FSub(a, b) == FAdd(a, FNeg(b))

\* |a| * |b|
FMulAbs(a, b) == RoundToFloat(0, BMul(a.m, b.m), a.e + b.e, FALSE)

\* a * b
FMul(a, b) == WithSign(IF a.s = b.s THEN 0 ELSE 1, FMulAbs(a, b))

\* the float nearest to (qr[1] + qr[2] / d) * 2^E, qr a quotient and a
\* remainder of a division by d
RoundQuotient(qr, E) == RoundToFloat(0, qr[1], E, qr[2] # <<>>)

\* |a| / |b| for b # 0
FDivAbs(a, b) ==
    IF FIsZero(a) THEN Float(0, <<>>, 0)
    ELSE LET k == Max(0, Precision + 2 + BBitLen(b.m) - BBitLen(a.m))
         IN  RoundQuotient(BDivMod(BShl(a.m, k), b.m), a.e - b.e - k)

\* a / b for b # 0 (Python raises ZeroDivisionError when b == 0)
FDiv(a, b) == WithSign(IF a.s = b.s THEN 0 ELSE 1, FDivAbs(a, b))

\* the float nearest to the square root of M * 2^(2 * E), r the integer
\* square root of M
SqrtRound(M, r, E) == RoundToFloat(0, r, E, BCmp(BMul(r, r), M) # 0)

SqrtMantissa(M, E) == SqrtRound(M, BSqrt(M), E)

\* math.sqrt(x) for a float x >= 0: the mantissa is scaled by an even power
\* of two that leaves its root more than 53 bits
SqrtFloat(x) ==
    LET odd == x.e % 2
        k == 2 * Precision + 4
    IN  IF FIsZero(x) THEN x
        ELSE SqrtMantissa(BShl(x.m, k + odd), (x.e - odd - k) \div 2)

\* math.sqrt(n) for an int n >= 0
Sqrt(n) == SqrtFloat(FromInt(n))

\* floor + t to the nearest int, ties to even: t = 1/2 if tie, otherwise
\* t < 1/2 if half = 0 and t > 1/2 if half = 1
RoundFloor(floor, tie, half) ==
    IF tie THEN (IF floor % 2 = 0 THEN floor ELSE floor + 1) ELSE floor + half

\* round(a): the nearest int, ties to even
RoundHalfEven(a) ==
    (IF a.s = 1 THEN -1 ELSE 1) *
    (IF FIsZero(a) THEN 0
     ELSE IF a.e >= 0 THEN BToNat(BShl(a.m, a.e))
     ELSE RoundFloor(BToNat(BShr(a.m, -a.e)), a.e = -1, BBit(a.m, -a.e - 1)))

\* the float a decimal literal denotes: digits * 10^-places
Dec(digits, places) == FDiv(FromInt(digits), FromInt(10^places))

Zero == FromInt(0)

One == FromInt(1)

\* sum() of a sequence of floats: ((0 + s[1]) + s[2]) + ...; the int 0 of an
\* empty sequence is taken as the float it becomes in the next operation
RECURSIVE FSumFrom(_, _, _)
FSumFrom(s, k, acc) ==
    IF k > Len(s) THEN acc ELSE FSumFrom(s, k + 1, FAdd(acc, s[k]))

FSum(s) == FSumFrom(s, 1, Zero)

RECURSIVE ISum(_)
ISum(s) == IF s = <<>> THEN 0 ELSE Head(s) + ISum(Tail(s))

\* max() over a non-empty sequence of floats: the first of the largest
RECURSIVE FMaxFrom(_, _, _)
FMaxFrom(s, k, best) ==
    IF k > Len(s) THEN best
    ELSE FMaxFrom(s, k + 1, IF FLt(best, s[k]) THEN s[k] ELSE best)

FMaxSeq(s) == FMaxFrom(s, 2, s[1])

\* max() over a non-empty sequence of ints
RECURSIVE IMaxSeq(_)
IMaxSeq(s) ==
    IF Len(s) = 1 THEN s[1]
    ELSE LET t == IMaxSeq(Tail(s)) IN IF s[1] < t THEN t ELSE s[1]

(***************************************************************************)
(* The configuration a user may have written into the script (lines 53-85) *)
(* and the command line and source file of one run.                        *)
(***************************************************************************)
Mon(w, h, sc, size, aw, ah, off) ==
    [width |-> w, height |-> h, scaling |-> sc, size_in |-> size,
     aspect_w |-> aw, aspect_h |-> ah, offset_bottom |-> off]

\* the three monitors the script ships with (lines 53-81)
ShippedMonitors ==
    << Mon(1920, 1080, Dec(125, 2), Dec(156, 1), 16, 9, Dec(1, 1)),
       Mon(3840, 2160, Dec(15, 1), FromInt(32), 16, 9, Zero),
       Mon(2560, 1440, Dec(125, 2), FromInt(27), 16, 9, Dec(75, 2)) >>

\* the gaps the script ships with (line 85)
ShippedGaps == << Dec(4, 1), Dec(5, 1) >>

\* monitors whose fields are all positive (offset_bottom >= 0): the shipped
\* ones, a 13.3 inch 4K panel at 175 %, whose scaled size is not a whole
\* number of pixels, and a 24 inch 1920x1080 monitor at 100 %
ValidMonitors ==
    { ShippedMonitors[k] : k \in 1..3 } \cup
    { Mon(3840, 2160, Dec(175, 2), Dec(133, 1), 16, 9, Zero),
      Mon(1920, 1080, One, FromInt(24), 16, 9, Zero) }

\* the second shipped monitor with a non-positive scaling, diagonal, width
\* or aspect
InvalidMonitors ==
    { Mon(3840, 2160, Zero, FromInt(32), 16, 9, Zero),
      Mon(3840, 2160, Dec(15, 1), FromInt(-32), 16, 9, Zero),
      Mon(-3840, 2160, Dec(15, 1), FromInt(32), 16, 9, Zero),
      Mon(3840, 2160, Dec(15, 1), FromInt(32), 0, 0, Zero) }

MonitorPool == ValidMonitors \cup InvalidMonitors

GapPool == { Zero } \cup { ShippedGaps[k] : k \in 1..2 }

\* len(sys.argv): the script name plus one or two arguments
ArgCounts == { 2, 3 }

Unreadable == [ok |-> FALSE, size |-> <<0, 0>>]

SourceFiles ==
    { Unreadable } \cup
    { [ok |-> TRUE, size |-> s] : s \in { <<3840, 2160>>, <<10000, 1000>> } }

SeqsUpTo(S, n) == UNION { [1..k -> S] : k \in 0..n }

\* the configurations of the model: the one the script ships with, and every
\* list of up to MaxMonitors monitors with every list of up to MaxGaps gaps
Configs ==
    { <<ShippedMonitors, ShippedGaps>> } \cup
    (SeqsUpTo(MonitorPool, MaxMonitors) \X SeqsUpTo(GapPool, MaxGaps))

VARIABLES
    argc,               \* len(sys.argv)
    monitors,           \* the monitor list, left to right
    gaps_in,            \* the gap list
    source_file,        \* what Image.open(input_path) finds
    pc,                 \* the statement main() is at
    exit_code,          \* the process's exit status, -1 while running
    width_in,           \* m["width_in"] of the monitors that have one
    height_in,          \* m["height_in"] of the monitors that have one
    total_width_in,
    max_height_in,
    width_scaled,       \* m["width_scaled"] of the monitors that have one
    height_scaled,      \* m["height_scaled"] of the monitors that have one
    total_output_width,
    output_height,
    opened,             \* number of Image.open calls made
    input_w,
    input_h,
    source_size,        \* original_img.size as opened, before the aspect crop
    crop_box,
    crop_branch,        \* which branch of lines 144-160 ran
    canvas,             \* output_img.size, <<>> before Image.new
    i,                  \* 1-based index of the monitor the loop is at
    current_x,
    running_inch_x,
    slices,             \* the loop's locals, one record per monitor pasted
    writes              \* number of times output_path was opened for writing

vars ==
    <<argc, monitors, gaps_in, source_file, pc, exit_code, width_in, height_in,
      total_width_in, max_height_in, width_scaled, height_scaled,
      total_output_width, output_height, opened, input_w, input_h, source_size,
      crop_box, crop_branch, canvas, i, current_x, running_inch_x, slices,
      writes>>

config == <<argc, monitors, gaps_in, source_file>>

physical == <<width_in, height_in, total_width_in, max_height_in>>

scaled == <<width_scaled, height_scaled, total_output_width, output_height>>

image == <<opened, input_w, input_h, source_size, crop_box, crop_branch>>

loop == <<canvas, i, current_x, running_inch_x, slices>>

Init ==
    /\ argc \in ArgCounts
    /\ \E c \in Configs : monitors = c[1] /\ gaps_in = c[2]
    /\ source_file \in SourceFiles
    /\ pc = "check_args"
    /\ exit_code = -1
    /\ width_in = <<>>
    /\ height_in = <<>>
    /\ total_width_in = Zero
    /\ max_height_in = Zero
    /\ width_scaled = <<>>
    /\ height_scaled = <<>>
    /\ total_output_width = 0
    /\ output_height = 0
    /\ opened = 0
    /\ input_w = 0
    /\ input_h = 0
    /\ source_size = <<>>
    /\ crop_box = <<>>
    /\ crop_branch = "none"
    /\ canvas = <<>>
    /\ i = 0
    /\ current_x = 0
    /\ running_inch_x = Zero
    /\ slices = <<>>
    /\ writes = 0

\* sys.exit(1)
Exit1 == pc' = "exit" /\ exit_code' = 1

\* an uncaught exception: traceback, exit status 1
Raise == pc' = "raised" /\ exit_code' = 1

(***************************************************************************)
(* Lines 94-103: the two checks before anything is computed.               *)
(***************************************************************************)
TooFewArgs(n) == n < 3

CheckArgs ==
    /\ pc = "check_args"
    /\ IF TooFewArgs(argc)
       THEN Exit1
       ELSE pc' = "check_gaps" /\ UNCHANGED exit_code
    /\ UNCHANGED <<config, physical, scaled, image, loop, writes>>

\* a variant of the gap check that forgets the "one less"
GapsMismatchOffByOne(g, ms) == Len(g) # Len(ms)

GapsMismatch(g, ms) == Len(g) # Len(ms) - 1

CheckGaps ==
    /\ pc = "check_gaps"
    /\ IF GapsMismatch(gaps_in, monitors)
       THEN Exit1
       ELSE pc' = "physical" /\ UNCHANGED exit_code
    /\ UNCHANGED <<config, physical, scaled, image, loop, writes>>

(***************************************************************************)
(* Lines 106-115: physical size of each monitor and of the whole layout.   *)
(***************************************************************************)
AspectDiagonal(m) == Sqrt(m.aspect_w * m.aspect_w + m.aspect_h * m.aspect_h)

WidthIn(m, diagonal) == FDiv(FMul(m.size_in, FromInt(m.aspect_w)), diagonal)

HeightIn(m, diagonal) == FDiv(FMul(m.size_in, FromInt(m.aspect_h)), diagonal)

\* the monitor at which the loop of lines 106-109 raises, Len(ms) + 1 if
\* none: line 108 divides by the first diagonal that is zero
FirstZeroDiagonal(diagonals) ==
    Least({ k \in 1..Len(diagonals) : FIsZero(diagonals[k]) }
          \cup { Len(diagonals) + 1 })

\* the loop of lines 106-109: it sets width_in and height_in monitor by
\* monitor and stops with a ZeroDivisionError at the first zero diagonal
PhysicalSizes ==
    /\ pc = "physical"
    /\ LET diagonals == Tuple([k \in 1..Len(monitors) |->
                                  AspectDiagonal(monitors[k])])
           stop == FirstZeroDiagonal(diagonals)
       IN  /\ width_in' = Tuple([k \in 1..(stop - 1) |->
                                    WidthIn(monitors[k], diagonals[k])])
           /\ height_in' = Tuple([k \in 1..(stop - 1) |->
                                     HeightIn(monitors[k], diagonals[k])])
           /\ IF stop <= Len(monitors)
              THEN Raise
              ELSE pc' = "layout" /\ UNCHANGED exit_code
    /\ UNCHANGED <<config, total_width_in, max_height_in, scaled, image, loop,
                   writes>>

TotalWidthIn(ws, g) == FAdd(FSum(ws), FSum(g))

MaxHeightIn(hs, ms) ==
    FMaxSeq(Tuple([k \in 1..Len(ms) |-> FAdd(hs[k], ms[k].offset_bottom)]))

PhysicalLayout ==
    /\ pc = "layout"
    /\ total_width_in' = TotalWidthIn(width_in, gaps_in)
    /\ max_height_in' = MaxHeightIn(height_in, monitors)
    /\ pc' = "scaled"
    /\ UNCHANGED <<config, exit_code, width_in, height_in, scaled, image, loop,
                   writes>>

(***************************************************************************)
(* Lines 121-127: the pixel footprint of each monitor and of the output.   *)
(***************************************************************************)
ScaledPx(px, scaling) == RoundHalfEven(FDiv(FromInt(px), scaling))

\* line 122 divides by zero
ZeroScaling(m) == FIsZero(m.scaling)

\* the monitor at which the loop of lines 121-123 raises, Len(ms) + 1 if none
FirstZeroScaling(ms) ==
    Least({ k \in 1..Len(ms) : ZeroScaling(ms[k]) } \cup { Len(ms) + 1 })

\* a variant that rounds the sum of the quotients instead of each quotient
TotalOutputWidthOfSum(ws) ==
    RoundHalfEven(FSum(Tuple([k \in 1..Len(monitors) |->
        FDiv(FromInt(monitors[k].width), monitors[k].scaling)])))

TotalOutputWidth(ws) == ISum(ws)

OutputHeight(hs) == IMaxSeq(hs)

\* the loop of lines 121-123, which stops with a ZeroDivisionError at the
\* first zero scaling, and the two totals of lines 126-127
ScaledSizes ==
    /\ pc = "scaled"
    /\ LET stop == FirstZeroScaling(monitors)
           ws == Tuple([k \in 1..(stop - 1) |->
                           ScaledPx(monitors[k].width, monitors[k].scaling)])
           hs == Tuple([k \in 1..(stop - 1) |->
                           ScaledPx(monitors[k].height, monitors[k].scaling)])
       IN  /\ width_scaled' = ws
           /\ height_scaled' = hs
           /\ IF stop <= Len(monitors)
              THEN /\ Raise
                   /\ UNCHANGED <<total_output_width, output_height>>
              ELSE /\ total_output_width' = TotalOutputWidth(ws)
                   /\ output_height' = OutputHeight(hs)
                   /\ pc' = "open"
                   /\ UNCHANGED exit_code
    /\ UNCHANGED <<config, physical, image, loop, writes>>

(***************************************************************************)
(* Lines 133-134: Image.open(input_path).                                  *)
(***************************************************************************)
OpenImage ==
    /\ pc = "open"
    /\ opened' = opened + 1
    /\ IF source_file.ok
       THEN /\ input_w' = source_file.size[1]
            /\ input_h' = source_file.size[2]
            /\ source_size' = source_file.size
            /\ pc' = "aspect_crop"
            /\ UNCHANGED exit_code
       ELSE /\ Raise
            /\ UNCHANGED <<input_w, input_h, source_size>>
    /\ UNCHANGED <<config, physical, scaled, crop_box, crop_branch, loop, writes>>

(***************************************************************************)
(* Lines 139-166: crop the source to the aspect ratio of the layout.       *)
(***************************************************************************)
\* Image.crop((left, upper, right, lower)) raises ValueError on these boxes
CropRaises(box) == box[3] < box[1] \/ box[4] < box[2]

BoxSize(box) == <<box[3] - box[1], box[4] - box[2]>>

InputAspect(w, h) == FDiv(FromInt(w), FromInt(h))

LayoutAspect(tw, mh) == FDiv(tw, mh)

\* which branch of the if / elif / else of lines 144-160 is taken
AspectBranch(w, h, la) ==
    LET input_aspect == InputAspect(w, h)
    IN  IF FLt(la, input_aspect) THEN "horizontal"
        ELSE IF FLt(input_aspect, la) THEN "vertical"
        ELSE "none"

HorizontalCrop(w, h, la) ==
    LET new_input_w == RoundHalfEven(FMul(FromInt(h), la))
        left == (w - new_input_w) \div 2
    IN  <<left, 0, left + new_input_w, h>>

VerticalCrop(w, h, la) ==
    LET new_input_h == RoundHalfEven(FDiv(FromInt(w), la))
        top == (h - new_input_h) \div 2
    IN  <<0, top, w, top + new_input_h>>

AspectCropBox(branch, w, h, la) ==
    CASE branch = "horizontal" -> HorizontalCrop(w, h, la)
      [] branch = "vertical" -> VerticalCrop(w, h, la)
      [] OTHER -> <<0, 0, w, h>>

AspectCrop ==
    /\ pc = "aspect_crop"
    /\ IF input_h = 0 \/ FIsZero(max_height_in)
       THEN /\ Raise
            /\ UNCHANGED <<input_w, input_h, crop_box, crop_branch>>
       ELSE LET la == LayoutAspect(total_width_in, max_height_in)
                branch == AspectBranch(input_w, input_h, la)
                box == AspectCropBox(branch, input_w, input_h, la)
            IN  /\ crop_branch' = branch
                /\ crop_box' = box
                /\ IF CropRaises(box)
                   THEN /\ Raise
                        /\ UNCHANGED <<input_w, input_h>>
                   ELSE /\ input_w' = BoxSize(box)[1]
                        /\ input_h' = BoxSize(box)[2]
                        /\ pc' = "canvas"
                        /\ UNCHANGED exit_code
    /\ UNCHANGED <<config, physical, scaled, opened, source_size, loop, writes>>

(***************************************************************************)
(* Lines 169-175: the red canvas and the loop's two running offsets.       *)
(***************************************************************************)
\* a variant of the canvas size that uses the native resolutions
CanvasSizeNative(tw, oh) ==
    <<ISum(Tuple([k \in 1..Len(monitors) |-> monitors[k].width])),
      IMaxSeq(Tuple([k \in 1..Len(monitors) |-> monitors[k].height]))>>

CanvasSize(tw, oh) == <<tw, oh>>

NewCanvas ==
    /\ pc = "canvas"
    /\ LET size == CanvasSize(total_output_width, output_height)
       IN  IF size[1] < 0 \/ size[2] < 0
           THEN /\ Raise
                /\ UNCHANGED <<canvas, i, current_x, running_inch_x>>
           ELSE /\ canvas' = size
                /\ i' = 1
                /\ current_x' = 0
                /\ running_inch_x' = Zero
                /\ pc' = "loop"
                /\ UNCHANGED exit_code
    /\ UNCHANGED <<config, physical, scaled, image, slices, writes>>

(***************************************************************************)
(* Lines 177-217: one iteration of the loop, for monitor i.                *)
(***************************************************************************)
LeftFrac(run, tw) == FDiv(run, tw)

RightFrac(run, w, tw) == FDiv(FAdd(run, w), tw)

OffsetFrac(m, mh) == FDiv(m.offset_bottom, mh)

HeightFrac(h, mh) == FDiv(h, mh)

BottomFrac(offset_frac) == FSub(One, offset_frac)

TopFrac(bottom_frac, height_frac) == FSub(bottom_frac, height_frac)

\* round(frac * input dimension)
FracToPx(frac, n) == RoundHalfEven(FMul(frac, FromInt(n)))

\* region.resize(target) raises ValueError on these arguments
ResizeRaises(region, target) ==
    region # target /\ (target[1] < 1 \/ target[2] < 1)

\* a variant of the paste that aligns the slices to the top of the canvas
PasteYTop(oh, hs) == 0

PasteY(oh, hs) == oh - hs

\* a variant of the advance that takes the gap after the next monitor
AdvanceInchNextGap(run, w, k, g) ==
    IF k < Len(g) THEN FAdd(FAdd(run, w), g[k + 1]) ELSE FAdd(run, w)

\* running_inch_x after monitor k (1-based): its width, then the gap after it
AdvanceInch(run, w, k, g) ==
    IF k - 1 < Len(g) THEN FAdd(FAdd(run, w), g[k]) ELSE FAdd(run, w)

AdvanceX(x, ws) == x + ws

LoopFinished(k, ms) == k > Len(ms)

LoopBody ==
    /\ pc = "loop"
    /\ ~LoopFinished(i, monitors)
    /\ IF FIsZero(total_width_in) \/ FIsZero(max_height_in)
       THEN /\ Raise
            /\ UNCHANGED loop
       ELSE LET m == monitors[i]
                left_frac == LeftFrac(running_inch_x, total_width_in)
                right_frac == RightFrac(running_inch_x, width_in[i], total_width_in)
                bottom_frac == BottomFrac(OffsetFrac(m, max_height_in))
                top_frac == TopFrac(bottom_frac,
                                    HeightFrac(height_in[i], max_height_in))
                box == <<FracToPx(left_frac, input_w), FracToPx(top_frac, input_h),
                         FracToPx(right_frac, input_w), FracToPx(bottom_frac, input_h)>>
                target == <<width_scaled[i], height_scaled[i]>>
                y_offset == PasteY(output_height, height_scaled[i])
            IN  IF CropRaises(box) \/ ResizeRaises(BoxSize(box), target)
                THEN /\ Raise
                     /\ UNCHANGED loop
                ELSE /\ slices' = Append(slices,
                            [left_frac |-> left_frac, right_frac |-> right_frac,
                             top_frac |-> top_frac, bottom_frac |-> bottom_frac,
                             crop |-> box, size |-> target,
                             x |-> current_x, y |-> y_offset,
                             inch_start |-> running_inch_x,
                             inch_end |-> FAdd(running_inch_x, width_in[i])])
                     /\ current_x' = AdvanceX(current_x, width_scaled[i])
                     /\ running_inch_x' =
                            AdvanceInch(running_inch_x, width_in[i], i, gaps_in)
                     /\ i' = i + 1
                     /\ UNCHANGED <<pc, exit_code, canvas>>
    /\ UNCHANGED <<config, physical, scaled, image, writes>>

(***************************************************************************)
(* Lines 219-220: save the canvas once the loop has run off the list.      *)
(* Image.save opens output_path for writing, which creates or truncates    *)
(* the file, and then encodes the canvas into it.  Either step can raise:  *)
(* the open (a missing directory, no permission) before anything is        *)
(* written, the encoding (a full disk, an I/O error) after the file was    *)
(* created or truncated.                                                   *)
(***************************************************************************)
SaveOutcomes == { "saved", "unopened", "interrupted" }

Save ==
    /\ pc = "loop"
    /\ LoopFinished(i, monitors)
    /\ \E outcome \in SaveOutcomes :
          /\ writes' = IF outcome = "unopened" THEN writes ELSE writes + 1
          /\ IF outcome = "saved"
             THEN pc' = "done" /\ exit_code' = 0
             ELSE Raise
    /\ UNCHANGED <<config, physical, scaled, image, loop>>

Next ==
    \/ CheckArgs
    \/ CheckGaps
    \/ PhysicalSizes
    \/ PhysicalLayout
    \/ ScaledSizes
    \/ OpenImage
    \/ AspectCrop
    \/ NewCanvas
    \/ LoopBody
    \/ Save

Spec == Init /\ [][Next]_vars

(***************************************************************************)
(* The pixels of the canvas.  Image.new (line 169) makes every pixel red   *)
(* and paste (line 209) overwrites the pixels of the canvas that the       *)
(* resized region falls on; nothing else writes to the canvas.             *)
(***************************************************************************)
\* the image pasted for slice s falls on canvas pixel (x, y)
Covers(s, x, y) ==
    /\ s.x <= x /\ x < s.x + s.size[1]
    /\ s.y <= y /\ y < s.y + s.size[2]

\* pixel (x, y) of the canvas still has the colour Image.new gave it
Red(x, y) == \A k \in 1..Len(slices) : ~Covers(slices[k], x, y)

\* the columns and rows of the canvas at which a pasted image begins or
\* ends, and 0: Red(x, y) is the same from one of them up to the next
XEdges ==
    { x \in {0} \cup { slices[k].x : k \in 1..Len(slices) }
              \cup { slices[k].x + slices[k].size[1] : k \in 1..Len(slices) } :
        0 <= x /\ x < canvas[1] }

YEdges ==
    { y \in {0} \cup { slices[k].y : k \in 1..Len(slices) }
              \cup { slices[k].y + slices[k].size[2] : k \in 1..Len(slices) } :
        0 <= y /\ y < canvas[2] }

\* some pixel of the canvas is red
SomeRed == \E x \in XEdges, y \in YEdges : Red(x, y)

\* the edges within the columns of the canvas monitor k was pasted into:
\* none when the pasted image falls outside the canvas
ColumnEdges(k) ==
    { x \in XEdges : slices[k].x <= x /\ x < slices[k].x + slices[k].size[1] }

\* row y is red all the way across the columns monitor k was pasted into
RowRed(k, y) == \A x \in ColumnEdges(k) : Red(x, y)

\* the number of rows at the top of monitor k's columns that are red all the
\* way across
BandHeight(k) ==
    Least({ y \in YEdges \cup { canvas[2] } : y = canvas[2] \/ ~RowRed(k, y) })

(***************************************************************************)
(* Properties.                                                             *)
(***************************************************************************)
Failed == pc \in {"exit", "raised"}

\* C1: whenever len(gaps) # len(monitors) - 1, whatever the arguments, the
\* run gets no further than the two checks of lines 94-100 and ends there
\* with exit status 1: the source image is never opened and nothing is ever
\* written to the output path.
C1_GapMismatchFailsBeforeIO ==
    Len(gaps_in) # Len(monitors) - 1 =>
        /\ pc \in {"check_args", "check_gaps", "exit"}
        /\ opened = 0
        /\ source_size = <<>>
        /\ canvas = <<>>
        /\ writes = 0
        /\ (pc = "exit" => exit_code = 1)

\* a run with both arguments given that the gap check has ended
C1_Witness ==
    /\ ~TooFewArgs(argc)
    /\ Len(monitors) >= 1
    /\ Len(gaps_in) # Len(monitors) - 1
    /\ pc = "exit"
    /\ exit_code = 1

RoundedWidth(m) == RoundHalfEven(FDiv(FromInt(m.width), m.scaling))

RoundedHeight(m) == RoundHalfEven(FDiv(FromInt(m.height), m.scaling))

RECURSIVE SumOfRoundedWidths(_)
SumOfRoundedWidths(ms) ==
    IF ms = <<>> THEN 0 ELSE RoundedWidth(Head(ms)) + SumOfRoundedWidths(Tail(ms))

RoundedHeights(ms) == { RoundedHeight(ms[k]) : k \in 1..Len(ms) }

\* C2: once the scaled sizes of all monitors are computed, total_output_width
\* is the sum over the monitors of round(width / scaling), each quotient
\* rounded on its own, output_height is the largest round(height / scaling),
\* and the canvas, once created, has exactly these dimensions.
C2_OutputSizeIsSumOfRounded ==
    (Len(monitors) >= 1 /\ Len(width_scaled) = Len(monitors)) =>
        /\ total_output_width = SumOfRoundedWidths(monitors)
        /\ output_height \in RoundedHeights(monitors)
        /\ \A v \in RoundedHeights(monitors) : v <= output_height
        /\ (canvas # <<>> => canvas = <<SumOfRoundedWidths(monitors), output_height>>)

\* a canvas whose width differs from the rounded sum of the quotients
C2_Witness ==
    /\ canvas # <<>>
    /\ Len(monitors) >= 2
    /\ canvas[1] = total_output_width
    /\ TotalOutputWidthOfSum(width_scaled) # total_output_width

\* C3: with (w, h) the size of the opened source, input_aspect = w / h and
\* layout_aspect = total_width_in / max_height_in: if input_aspect >
\* layout_aspect the crop box is round(h * layout_aspect) wide, horizontally
\* centred, full height; if input_aspect < layout_aspect it is
\* round(w / layout_aspect) high, vertically centred, full width; if they are
\* equal it is the whole image.  In every branch the box lies inside the
\* source, and an image that was cropped has the box's size.
C3_AspectCropBranches ==
    crop_box # <<>> =>
        LET w == source_size[1]
            h == source_size[2]
            layout_aspect == FDiv(total_width_in, max_height_in)
            input_aspect == FDiv(FromInt(w), FromInt(h))
            nw == RoundHalfEven(FMul(FromInt(h), layout_aspect))
            nh == RoundHalfEven(FDiv(FromInt(w), layout_aspect))
            inside == /\ 0 <= crop_box[1] /\ crop_box[1] <= crop_box[3]
                      /\ crop_box[3] <= w
                      /\ 0 <= crop_box[2] /\ crop_box[2] <= crop_box[4]
                      /\ crop_box[4] <= h
        IN  /\ FLt(layout_aspect, input_aspect) =>
                /\ crop_branch = "horizontal"
                /\ crop_box = <<(w - nw) \div 2, 0, (w - nw) \div 2 + nw, h>>
                /\ (w - crop_box[3]) - crop_box[1] \in {0, 1}
            /\ FLt(input_aspect, layout_aspect) =>
                /\ crop_branch = "vertical"
                /\ crop_box = <<0, (h - nh) \div 2, w, (h - nh) \div 2 + nh>>
                /\ (h - crop_box[4]) - crop_box[2] \in {0, 1}
            /\ FEq(input_aspect, layout_aspect) =>
                /\ crop_branch = "none"
                /\ crop_box = <<0, 0, w, h>>
            /\ inside
            /\ pc \in {"canvas", "loop", "done"} =>
                <<input_w, input_h>> = <<crop_box[3] - crop_box[1],
                                        crop_box[4] - crop_box[2]>>

NonPositiveMonitor(m) ==
    \/ m.width <= 0
    \/ m.height <= 0
    \/ FLe(m.scaling, Zero)
    \/ FLe(m.size_in, Zero)
    \/ m.aspect_w <= 0
    \/ m.aspect_h <= 0

\* C4: a run whose monitor list holds a monitor with a non-positive width,
\* height, scaling, diagonal or aspect component never writes the output path
\* and never ends with exit status 0.
C4_NonPositiveMonitorRejected ==
    (\E k \in 1..Len(monitors) : NonPositiveMonitor(monitors[k])) =>
        /\ writes = 0
        /\ exit_code # 0

ValidConfig ==
    /\ Len(gaps_in) = Len(monitors) - 1
    /\ \A k \in 1..Len(monitors) :
          /\ ~NonPositiveMonitor(monitors[k])
          /\ FLe(Zero, monitors[k].offset_bottom)
    /\ \A k \in 1..Len(gaps_in) : FLe(Zero, gaps_in[k])

\* C5 as stated, read over valid configurations: for adjacent monitors k and
\* k+1 the offset at which k's sample rectangle ends is the one k+1 starts
\* from before gap k is added, adding gap k strictly increases the running
\* inch offset, left_frac(k+1) = right_frac(k) + gaps[k] / total_width_in, and
\* the two slices are placed without a horizontal gap in the output.
C5_GapStrictlyIncreasesOffset ==
    ValidConfig => \A k \in 1..(Len(slices) - 1) :
        /\ slices[k].inch_end = FAdd(slices[k].inch_start, width_in[k])
        /\ slices[k + 1].inch_start = FAdd(slices[k].inch_end, gaps_in[k])
        /\ FLt(slices[k].inch_end, slices[k + 1].inch_start)
        /\ FEq(slices[k + 1].left_frac,
               FAdd(slices[k].right_frac, FDiv(gaps_in[k], total_width_in)))
        /\ slices[k + 1].x = slices[k].x + slices[k].size[1]

\* C5 as amended: for adjacent monitors k and k+1, right_frac(k) is the
\* offset at which k ends over total_width_in, k+1 starts from the float sum
\* of that offset and gaps[k], and left_frac(k+1) is that sum over
\* total_width_in; a gap >= 0 never decreases the offset and a zero gap
\* leaves it (and the fraction) where monitor k ended; with a gap >= 0 and a
\* positive total_width_in, left_frac(k+1) >= right_frac(k); the two slices
\* are placed without a horizontal gap in the output.
C5_GapAdvancesOffset ==
    \A k \in 1..(Len(slices) - 1) :
        /\ slices[k].inch_end = FAdd(slices[k].inch_start, width_in[k])
        /\ slices[k + 1].inch_start = FAdd(slices[k].inch_end, gaps_in[k])
        /\ slices[k].right_frac = FDiv(slices[k].inch_end, total_width_in)
        /\ slices[k + 1].left_frac =
               FDiv(slices[k + 1].inch_start, total_width_in)
        /\ FLe(Zero, gaps_in[k]) =>
               FLe(slices[k].inch_end, slices[k + 1].inch_start)
        /\ FIsZero(gaps_in[k]) =>
               /\ FEq(slices[k].inch_end, slices[k + 1].inch_start)
               /\ FEq(slices[k].right_frac, slices[k + 1].left_frac)
        /\ (FLe(Zero, gaps_in[k]) /\ FLt(Zero, total_width_in)) =>
               FLe(slices[k].right_frac, slices[k + 1].left_frac)
        /\ slices[k + 1].x = slices[k].x + slices[k].size[1]

\* a finished run of two valid monitors with a zero gap between them: the
\* second slice starts at the fraction at which the first one ends
C5_Witness ==
    /\ ValidConfig
    /\ pc = "done"
    /\ Len(slices) = 2
    /\ FIsZero(gaps_in[1])
    /\ FLt(Zero, slices[1].right_frac)
    /\ FEq(slices[2].left_frac, slices[1].right_frac)
    /\ slices[2].x = slices[1].size[1]

EffectiveHeight(k) == FAdd(height_in[k], monitors[k].offset_bottom)

Deficit(k) == FSub(max_height_in, EffectiveHeight(k))

UnequalOffsets ==
    \E j, k \in 1..Len(monitors) :
        ~FEq(monitors[j].offset_bottom, monitors[k].offset_bottom)

MaxHeightIsLargestEffective ==
    /\ \E k \in 1..Len(monitors) : FEq(EffectiveHeight(k), max_height_in)
    /\ \A k \in 1..Len(monitors) : FLe(EffectiveHeight(k), max_height_in)

\* C6 as stated: in a finished multi-monitor run of a valid configuration
\* with unequal offset_bottom, max_height_in is the largest height_in +
\* offset_bottom, every monitor whose effective height is smaller leaves a red
\* band at the top of its column, a monitor that defines max_height_in leaves
\* none, and (as proportional heights are) the bands are ordered as the
\* effective-height deficits.
C6_BandProportionalToDeficit ==
    (ValidConfig /\ pc = "done" /\ Len(monitors) >= 2 /\ UnequalOffsets) =>
        /\ MaxHeightIsLargestEffective
        /\ \A k \in 1..Len(monitors) :
              /\ FLt(EffectiveHeight(k), max_height_in) => BandHeight(k) > 0
              /\ FEq(EffectiveHeight(k), max_height_in) => BandHeight(k) = 0
        /\ \A j, k \in 1..Len(monitors) :
              FLt(Deficit(j), Deficit(k)) => BandHeight(j) <= BandHeight(k)

\* C6 as amended: in a finished multi-monitor run with unequal offset_bottom,
\* max_height_in is the largest height_in + offset_bottom, and the red left in
\* monitor k's column is exactly the band of its top
\* output_height - height_scaled[k] rows: the deficit of its scaled pixel
\* height against the tallest scaled monitor, whatever its offset_bottom and
\* physical height; a monitor with the largest height_scaled leaves none.
C6_BandIsPixelHeightDeficit ==
    (pc = "done" /\ Len(monitors) >= 2 /\ UnequalOffsets) =>
        /\ MaxHeightIsLargestEffective
        /\ \A k \in 1..Len(monitors) :
              /\ BandHeight(k) = output_height - height_scaled[k]
              /\ \A x \in ColumnEdges(k), y \in YEdges :
                    Red(x, y) <=> y < output_height - height_scaled[k]
              /\ height_scaled[k] = output_height => BandHeight(k) = 0

\* a finished run in which the monitor defining max_height_in has a red band
\* and a physically lower monitor has none
C6_Witness ==
    /\ pc = "done"
    /\ Len(monitors) >= 2
    /\ UnequalOffsets
    /\ \A k \in 1..Len(monitors) : ~NonPositiveMonitor(monitors[k])
    /\ \E j, k \in 1..Len(monitors) :
          /\ FEq(EffectiveHeight(j), max_height_in)
          /\ BandHeight(j) > 0
          /\ FLt(EffectiveHeight(k), max_height_in)
          /\ BandHeight(k) = 0

SingleMonitorNoOffset ==
    /\ Len(monitors) = 1
    /\ FIsZero(monitors[1].offset_bottom)
    /\ gaps_in = <<>>

\* C7: in a run with a single monitor, offset 0 and no gaps, the canvas is
\* exactly round(width / scaling) by round(height / scaling), the monitor's
\* sample rectangle is the whole aspect-cropped source (fractions 0..1 on both
\* axes), and once the loop is over no canvas pixel is red.
C7_SingleMonitorFullyCovered ==
    SingleMonitorNoOffset =>
        /\ canvas # <<>> =>
              canvas = <<RoundedWidth(monitors[1]), RoundedHeight(monitors[1])>>
        /\ slices # <<>> =>
              /\ FEq(slices[1].left_frac, Zero) /\ FEq(slices[1].right_frac, One)
              /\ FEq(slices[1].top_frac, Zero) /\ FEq(slices[1].bottom_frac, One)
              /\ slices[1].crop = <<0, 0, input_w, input_h>>
              /\ <<slices[1].x, slices[1].y>> = <<0, 0>>
              /\ slices[1].size = canvas
        /\ (pc = "done" \/ i > 1) => ~SomeRed

\* a finished single-monitor run at a scaling other than 1: a non-empty canvas
\* with no red left
C7_Witness ==
    /\ SingleMonitorNoOffset
    /\ ~NonPositiveMonitor(monitors[1])
    /\ pc = "done"
    /\ canvas[1] > 0 /\ canvas[2] > 0
    /\ ~FEq(monitors[1].scaling, One)
    /\ slices[1].size = canvas
    /\ ~SomeRed

\* C8: the output path is written at most once, and only by a run that has
\* cropped, resampled and pasted every monitor of the list and that ends with
\* the composite saved; a run that failed (too few arguments, gap / monitor
\* count mismatch, unreadable source, an exception anywhere) has written
\* nothing to the output path.
C8_AllOrNothing ==
    /\ writes \in {0, 1}
    /\ writes = 1 =>
          /\ pc = "done"
          /\ exit_code = 0
          /\ Len(slices) = Len(monitors)
          /\ i = Len(monitors) + 1
    /\ pc = "done" => writes = 1
    /\ Failed => writes = 0 /\ exit_code = 1
    /\ pc \notin {"done", "exit", "raised"} => writes = 0

RECURSIVE SumUpTo(_, _)
SumUpTo(s, n) == IF n = 0 THEN 0 ELSE s[n] + SumUpTo(s, n - 1)

\* the images pasted for slices a and b share a pixel
Overlap(a, b) ==
    /\ a.x < b.x + b.size[1] /\ b.x < a.x + a.size[1]
    /\ a.y < b.y + b.size[2] /\ b.y < a.y + a.size[2]

\* C9: the k-th monitor is pasted at x = the sum of width_scaled of the
\* monitors before it and y = output_height - height_scaled[k], whatever its
\* offset_bottom and the gaps: the pasted rectangles are bottom-aligned, lie
\* inside the canvas, do not overlap and leave no horizontal space, and after
\* the last monitor the running pixel offset is total_output_width.
C9_PastePlacement ==
    /\ \A k \in 1..Len(slices) :
          /\ slices[k].size = <<width_scaled[k], height_scaled[k]>>
          /\ slices[k].x = SumUpTo(width_scaled, k - 1)
          /\ slices[k].y = output_height - height_scaled[k]
          /\ slices[k].y >= 0
          /\ slices[k].y + slices[k].size[2] = canvas[2]
          /\ slices[k].x >= 0
          /\ slices[k].x + slices[k].size[1] <= canvas[1]
          /\ k < Len(slices) => slices[k + 1].x = slices[k].x + slices[k].size[1]
          /\ \A j \in 1..(k - 1) : ~Overlap(slices[j], slices[k])
    /\ pc = "loop" => current_x = SumUpTo(width_scaled, i - 1)
    /\ pc = "done" => current_x = total_output_width /\ current_x = canvas[1]

\* C10: in a valid configuration every monitor the loop visits has a sample
\* rectangle with 0 <= left_frac < right_frac <= 1 and
\* 0 <= top_frac < bottom_frac <= 1, where left/right are running_inch_x and
\* running_inch_x + width_in over total_width_in, bottom_frac is
\* 1 - offset_bottom / max_height_in and top_frac is bottom_frac -
\* height_in / max_height_in; the first left_frac is 0, the last right_frac
\* is 1, and the running inch offset never exceeds total_width_in.
C10_SampleRectInUnitSquare ==
    ValidConfig =>
        /\ \A k \in 1..Len(slices) :
              /\ FLe(Zero, slices[k].left_frac)
              /\ FLt(slices[k].left_frac, slices[k].right_frac)
              /\ FLe(slices[k].right_frac, One)
              /\ FLe(Zero, slices[k].top_frac)
              /\ FLt(slices[k].top_frac, slices[k].bottom_frac)
              /\ FLe(slices[k].bottom_frac, One)
              /\ slices[k].left_frac = FDiv(slices[k].inch_start, total_width_in)
              /\ slices[k].right_frac =
                     FDiv(FAdd(slices[k].inch_start, width_in[k]), total_width_in)
              /\ slices[k].bottom_frac =
                     FSub(One, FDiv(monitors[k].offset_bottom, max_height_in))
              /\ slices[k].top_frac =
                     FSub(slices[k].bottom_frac, FDiv(height_in[k], max_height_in))
        /\ slices # <<>> => FEq(slices[1].left_frac, Zero)
        /\ Len(slices) = Len(monitors) => FEq(slices[Len(slices)].right_frac, One)
        /\ pc \in {"loop", "done"} => FLe(running_inch_x, total_width_in)
====
